---- MODULE Spec2Model ----
(***************************************************************************)
(* The ELF relocatable object writer of Subzero (ELFObjectWriter), as a    *)
(* state machine: the writer's section registries, symbol table, string    *)
(* tables and the byte sink, with one action per public operation.         *)
(* Names are sequences of character codes, the sink is a sequence of       *)
(* bytes with a write position.                                            *)
(***************************************************************************)
EXTENDS Integers, Sequences, FiniteSets, TLC

VARIABLES
  TargetArch,              \* Ctx.getTargetArch()
  Str,                     \* the ELFStreamer: [buf, pos], the gaps padded, the moves
  Sections,                \* the arena of ELFSection objects, in creation order
  TextSections, DataSections, RoDataSections,
  RelTextSections, RelDataSections, RelRoDataSections,
  Symbols,                 \* the symbols of SymTab, in creation order
  SectionNumbersAssigned,
  AllSections,             \* the list built by assignSectionNumbersInfo
  phase,                   \* "Building", "Done", "Aborted"
  lastCall,                \* the public operation called last, with its arguments
  result,                  \* how that call ended: "ok" or "error"
  headerCalls              \* number of writeInitialELFHeader calls so far

vars == <<TargetArch, Str, Sections, TextSections, DataSections, RoDataSections,
          RelTextSections, RelDataSections, RelRoDataSections, Symbols,
          SectionNumbersAssigned, AllSections, phase, lastCall, result,
          headerCalls>>

----------------------------------------------------------------------------
\* Bounds of the model.
MaxCalls == 3          \* calls that write a function or a non-empty pool
MaxHeaderCalls == 1    \* calls of writeInitialELFHeader

----------------------------------------------------------------------------
\* ELF enumerators used by the writer.
SHT_NULL == 0
SHT_PROGBITS == 1
SHT_SYMTAB == 2
SHT_STRTAB == 3
SHT_RELA == 4
SHT_REL == 9
SHF_ALLOC == 2
SHF_EXECINSTR == 4
SHF_MERGE == 16
STT_NOTYPE == 0
STT_FUNC == 2
STB_LOCAL == 0
STB_GLOBAL == 1
SHN_LORESERVE == 65280
ET_REL == 1
ELFCLASS32 == 1
ELFCLASS64 == 2
ELFDATA2LSB == 1
EV_CURRENT == 1
ELFOSABI_NONE == 0
EI_NIDENT == 16
EI_PAD == 9
ElfMagic == <<127, 69, 76, 70>>

\* Section names, as character codes.
NullSectionName == <<>>
ShStrTabName == <<46, 115, 104, 115, 116, 114, 116, 97, 98>>
SymTabName == <<46, 115, 121, 109, 116, 97, 98>>
StrTabName == <<46, 115, 116, 114, 116, 97, 98>>
TextSectionName == <<46, 116, 101, 120, 116>>
RelaPrefix == <<46, 114, 101, 108, 97>>
RelPrefix == <<46, 114, 101, 108>>
RoDataCstPrefix == <<46, 114, 111, 100, 97, 116, 97, 46, 99, 115, 116>>

\* The section number of a section that has none yet.
NoSectionNumber == -1

\* The fixed singletons, by their place in the arena.
NullSection == 1
ShStrTab == 2
SymTab == 3
StrTab == 4

----------------------------------------------------------------------------
\* The target table: architecture -> (IsELF64, ELFMachine, ELFFlags).
TargetArchs == {"x8632", "x8664"}

ELFTargetInfo(Arch) ==
  IF Arch = "x8664"
  THEN [IsELF64 |-> TRUE, ELFMachine |-> 62, ELFFlags |-> 0]
  ELSE [IsELF64 |-> FALSE, ELFMachine |-> 3, ELFFlags |-> 0]

isELF64(Arch) == ELFTargetInfo(Arch).IsELF64
getELFMachine(Arch) == ELFTargetInfo(Arch).ELFMachine
getELFFlags(Arch) == ELFTargetInfo(Arch).ELFFlags

----------------------------------------------------------------------------
\* Sequences and little-endian encodings.
RECURSIVE Pow256(_)
Pow256(n) == IF n = 0 THEN 1 ELSE 256 * Pow256(n - 1)

\* v >= 0 in n bytes, least significant first (n <= 3 significant bytes here;
\* the higher bytes of a 4- or 8-byte field are zero).
LEBytes(v, n) ==
  [i \in 1..n |-> IF i <= 3 THEN (v \div Pow256(i - 1)) % 256 ELSE 0]

\* Two's complement of a signed value in n bytes.
LESigned(v, n) ==
  IF v >= 0 THEN LEBytes(v, n)
  ELSE [i \in 1..n |-> 255 - LEBytes(-v - 1, n)[i]]

Zeros(n) == [i \in 1..n |-> 0]

RECURSIVE Concat(_)
Concat(ss) == IF ss = <<>> THEN <<>> ELSE Head(ss) \o Concat(Tail(ss))

RECURSIVE IndexIn(_, _)
\* 1-based position of the first x in s, 0 when absent.
IndexIn(s, x) ==
  IF s = <<>> THEN 0
  ELSE IF Head(s) = x THEN 1
  ELSE LET r == IndexIn(Tail(s), x) IN IF r = 0 THEN 0 ELSE r + 1

Contains(s, x) == \E i \in 1..Len(s) : s[i] = x

----------------------------------------------------------------------------
\* ELFStreamer: an append-or-overwrite byte sink with a position.  pad records
\* the places (1-based) that alignFileOffset padded, log the moves of the
\* position during the operation under way, atSeek what the sink held when
\* seek was last called; all three are read by no operation.
EmptyStr == [buf |-> <<>>, pos |-> 0, pad |-> {}, log |-> <<>>, atSeek |-> <<>>]

tell(S) == S.pos

writeBytes(S, data) ==
  [S EXCEPT !.buf = SubSeq(S.buf, 1, S.pos) \o data
                   \o SubSeq(S.buf, S.pos + Len(data) + 1, Len(S.buf)),
            !.pos = S.pos + Len(data),
            !.log = Append(@, [op |-> "write", from |-> S.pos,
                               to |-> S.pos + Len(data)])]

writeZeroPadding(S, n) == writeBytes(S, Zeros(n))
write8(S, v) == writeBytes(S, LEBytes(v, 1))
writeLE16(S, v) == writeBytes(S, LEBytes(v % 65536, 2))
writeLE32(S, v) == writeBytes(S, LEBytes(v, 4))
writeLE64(S, v) == writeBytes(S, LEBytes(v, 8))
writeELFWord(S, Is64, v) == writeLE32(S, v)
writeELFXword(S, Is64, v) == IF Is64 THEN writeLE64(S, v) ELSE writeLE32(S, v)
writeAddrOrOffset(S, Is64, v) == IF Is64 THEN writeLE64(S, v) ELSE writeLE32(S, v)
seek(S, p) ==
  [S EXCEPT !.pos = p, !.atSeek = S.buf,
            !.log = Append(@, [op |-> "seek", from |-> S.pos, to |-> p])]

\* The bytes of the sink in [from, from + n).
Slice(buf, from, n) == SubSeq(buf, from + 1, from + n)

----------------------------------------------------------------------------
\* ELFStringTableSection: the strings added, in insertion order, each once.
StringTableAdd(strings, s) ==
  IF Contains(strings, s) THEN strings ELSE Append(strings, s)

RECURSIVE StringTableLayout(_)
\* The blob after the leading NUL: each non-empty string followed by a NUL.
StringTableLayout(strings) ==
  IF strings = <<>> THEN <<>>
  ELSE (IF Head(strings) = <<>> THEN <<>> ELSE Head(strings) \o <<0>>)
       \o StringTableLayout(Tail(strings))

StringTableData(strings) == <<0>> \o StringTableLayout(strings)

RECURSIVE StringTableIndex(_, _)
\* Offset of s in the blob; the empty string is the leading NUL.
StringTableIndex(strings, s) ==
  IF s = <<>> \/ strings = <<>> THEN 0
  ELSE IF Head(strings) = s THEN 1
  ELSE (IF Head(strings) = <<>> THEN 0 ELSE Len(Head(strings)) + 1)
       + StringTableIndex(Tail(strings), s)

----------------------------------------------------------------------------
\* ELFSection(Name, ShType, ShFlags, ShAddralign, ShEntsize): a fresh section.
\* Submitted (the bytes handed to the section, in order), FixupsSubmitted (the
\* number of fixups handed in for it), OffsetSets (how often setFileOffset ran),
\* NameIndexSet (whether setNameStrIndex ran, and whether .shstrtab was laid
\* out when it did) and CreatedAfterAssign record history and are read by no
\* operation.
ELFSection(Name, ShType, ShFlags, ShAddralign, ShEntsize) ==
  [Name |-> Name, sh_type |-> ShType, sh_flags |-> ShFlags,
   sh_addralign |-> ShAddralign, sh_entsize |-> ShEntsize,
   Number |-> NoSectionNumber, sh_name |-> 0, sh_offset |-> 0, sh_size |-> 0,
   sh_link |-> 0, sh_info |-> 0,
   RelatedSection |-> 0, Fixups |-> <<>>,
   Strings |-> <<>>, Frozen |-> FALSE,
   Submitted |-> <<>>, FixupsSubmitted |-> 0, OffsetSets |-> 0,
   NameIndexSet |-> "never", CreatedAfterAssign |-> FALSE]

setFileOffset(w, Sec, Offset) ==
  [w EXCEPT !.Sections[Sec].sh_offset = Offset,
            !.Sections[Sec].OffsetSets = @ + 1]

\* ELFSymbolTableSection::createDefinedSym
createDefinedSym(w, Name, Type, Binding, Section, Offset, Size) ==
  [w EXCEPT !.Symbols = Append(@,
     [Name |-> Name, Type |-> Type, Binding |-> Binding, Section |-> Section,
      st_value |-> Offset, st_size |-> Size, st_name |-> 0])]

\* ELFStringTableSection::add on the string table Tab
StrAdd(w, Tab, Name) ==
  [w EXCEPT !.Sections[Tab].Strings = StringTableAdd(@, Name)]

\* A createSection without its assertion.
createSectionUnguarded(w) == TRUE

\* assert(!SectionNumbersAssigned) of createSection
createSectionAssert(w) == ~w.SectionNumbersAssigned

\* createSection<T>: the new section is the last of the arena.
createSection(w, Name, ShType, ShFlags, ShAddralign, ShEntsize) ==
  IF w.failed THEN w
  ELSE IF ~createSectionAssert(w) THEN [w EXCEPT !.failed = TRUE]
  ELSE StrAdd(
         [w EXCEPT !.Sections = Append(@,
            [ELFSection(Name, ShType, ShFlags, ShAddralign, ShEntsize)
               EXCEPT !.CreatedAfterAssign = w.SectionNumbersAssigned])],
         ShStrTab, Name)

SymTabAlign(Is64) == IF Is64 THEN 8 ELSE 4
SymTabEntSize(Is64) == IF Is64 THEN 24 ELSE 16

\* ELFObjectWriter::ELFObjectWriter
Constructor(Arch) ==
  LET w0 == [TargetArch |-> Arch, Str |-> EmptyStr,
             Sections |-> <<ELFSection(NullSectionName, SHT_NULL, 0, 0, 0),
                            [ELFSection(ShStrTabName, SHT_STRTAB, 0, 1, 0)
                               EXCEPT !.Strings = <<ShStrTabName>>]>>,
             TextSections |-> <<>>, DataSections |-> <<>>, RoDataSections |-> <<>>,
             RelTextSections |-> <<>>, RelDataSections |-> <<>>,
             RelRoDataSections |-> <<>>,
             Symbols |-> <<>>, SectionNumbersAssigned |-> FALSE,
             AllSections |-> <<>>, failed |-> FALSE]
      w1 == createSection(w0, SymTabName, SHT_SYMTAB, 0,
                          SymTabAlign(isELF64(Arch)), SymTabEntSize(isELF64(Arch)))
      w2 == createDefinedSym(w1, <<>>, STT_NOTYPE, STB_LOCAL, NullSection, 0, 0)
  IN createSection(w2, StrTabName, SHT_STRTAB, 0, 1, 0)

----------------------------------------------------------------------------

RECURSIVE BitAnd(_, _)
\* a & b on unsigned values.
BitAnd(a, b) ==
  IF a = 0 \/ b = 0 THEN 0
  ELSE (a % 2) * (b % 2) + 2 * BitAnd(a \div 2, b \div 2)

\* llvm::isPowerOf2_32: Value && !(Value & (Value - 1)).
isPowerOf2_32(Value) == Value # 0 /\ BitAnd(Value, Value - 1) = 0

\* OffsetInFile & (Align - 1)
AlignMod(OffsetInFile, Align) == BitAnd(OffsetInFile, Align - 1)

\* A wrong alignFileOffset: pads by Mod, not by Align - Mod.
alignFileOffsetByMod(S, Align) ==
  LET OffsetInFile == tell(S)
      Mod == AlignMod(OffsetInFile, Align)
  IN IF ~isPowerOf2_32(Align)
     THEN [Str |-> S, OffsetInFile |-> OffsetInFile, failed |-> TRUE]
     ELSE IF Mod = 0
     THEN [Str |-> S, OffsetInFile |-> OffsetInFile, failed |-> FALSE]
     ELSE [Str |-> [writeZeroPadding(S, Mod)
                      EXCEPT !.pad = @ \cup (tell(S) + 1 .. tell(S) + Mod)],
           OffsetInFile |-> OffsetInFile + Mod, failed |-> FALSE]

\* A wrong alignFileOffset: it pads a whole Align when the position is aligned.
alignFileOffsetWholeStep(S, Align) ==
  LET OffsetInFile == tell(S)
      AlignDiff == Align - AlignMod(OffsetInFile, Align)
  IN IF ~isPowerOf2_32(Align)
     THEN [Str |-> S, OffsetInFile |-> OffsetInFile, failed |-> TRUE]
     ELSE [Str |-> [writeZeroPadding(S, AlignDiff)
                      EXCEPT !.pad = @ \cup (tell(S) + 1 .. tell(S) + AlignDiff)],
           OffsetInFile |-> OffsetInFile + AlignDiff, failed |-> FALSE]

\* ELFObjectWriter::alignFileOffset: the padded stream, the offset returned,
\* and whether assert(isPowerOf2_32(Align)) failed.  The assertion behind the
\* padding, (OffsetInFile & (Align - 1)) == 0, holds whenever the first does.
alignFileOffset(S, Align) ==
  LET OffsetInFile == tell(S)
      Mod == AlignMod(OffsetInFile, Align)
      AlignDiff == Align - Mod
  IN IF ~isPowerOf2_32(Align)
     THEN [Str |-> S, OffsetInFile |-> OffsetInFile, failed |-> TRUE]
     ELSE IF Mod = 0
     THEN [Str |-> S, OffsetInFile |-> OffsetInFile, failed |-> FALSE]
     ELSE [Str |-> [writeZeroPadding(S, AlignDiff)
                      EXCEPT !.pad = @ \cup (tell(S) + 1 .. tell(S) + AlignDiff)],
           OffsetInFile |-> OffsetInFile + AlignDiff, failed |-> FALSE]


\* alignFileOffset(Align) followed by setFileOffset of the section Sec.
alignAndSetFileOffset(w, Sec, Align) ==
  LET al == alignFileOffset(w.Str, Align)
  IN IF al.failed THEN [w EXCEPT !.failed = TRUE]
     ELSE setFileOffset([w EXCEPT !.Str = al.Str], Sec, al.OffsetInFile)

----------------------------------------------------------------------------
\* ELFTextSection::appendData: the bytes go to the sink at its position and
\* the section size grows by their number.
appendData(w, Sec, Data) ==
  [w EXCEPT !.Str = writeBytes(@, Data),
            !.Sections[Sec].sh_size = @ + Len(Data)]

\* The history of a function handed to the text section Sec.
Handed(w, Sec, Asm) ==
  [w EXCEPT !.Sections[Sec].Submitted = @ \o Asm.Buffer,
            !.Sections[Sec].FixupsSubmitted = @ + Len(Asm.Fixups)]

\* Symbol type and binding of a function symbol.
FunctionSymbolType(IsInternal) == IF IsInternal THEN STT_NOTYPE ELSE STT_FUNC
FunctionSymbolBindingLocal(IsInternal) == STB_LOCAL
FunctionSymbolBinding(IsInternal) == IF IsInternal THEN STB_LOCAL ELSE STB_GLOBAL

\* ELFRelocationSection::addRelocations: every fixup, its offset moved by
\* BaseOff, appended in order.
addRelocations(w, Rel, BaseOff, Fixups) ==
  [w EXCEPT !.Sections[Rel].Fixups =
     @ \o [i \in 1..Len(Fixups) |->
             [Fixups[i] EXCEPT !.offset = @ + BaseOff]]]

\* std::find_if over RelTextSections by name: position in the list, 0 if none.
RECURSIVE FindRelSection(_, _, _)
FindRelSection(w, RelSections, RelSectionName) ==
  IF RelSections = <<>> THEN 0
  ELSE IF w.Sections[Head(RelSections)].Name = RelSectionName THEN 1
  ELSE LET r == FindRelSection(w, Tail(RelSections), RelSectionName)
       IN IF r = 0 THEN 0 ELSE r + 1

\* The newest section of the arena: the one createSection just returned.
Newest(w) == Len(w.Sections)

\* Placement and registration of the text section just created.
registerTextSection(w) ==
  IF w.failed THEN w
  ELSE [alignAndSetFileOffset(w, Newest(w), w.Sections[Newest(w)].sh_addralign)
          EXCEPT !.TextSections = Append(@, Newest(w))]

\* The text section of writeFunctionCode: created, aligned and registered on
\* the first call, TextSections[0] afterwards.
TextSectionFor(w) ==
  IF Len(w.TextSections) = 0
  THEN registerTextSection(createSection(w, TextSectionName, SHT_PROGBITS,
                                         SHF_ALLOC + SHF_EXECINSTR, 32, 0))
  ELSE w

\* Name of the relocation section of .text.
RelTextSectionName(IsELF64) ==
  (IF IsELF64 THEN RelaPrefix ELSE RelPrefix) \o TextSectionName

\* A wrong registration: the relocation section is not tied to its section.
registerRelTextSectionUntied(w, Section) ==
  IF w.failed THEN w
  ELSE [w EXCEPT !.RelTextSections = Append(@, Newest(w))]

\* The relocation section just created is tied to Section and registered.
registerRelTextSection(w, Section) ==
  IF w.failed THEN w
  ELSE [w EXCEPT !.Sections[Newest(w)].RelatedSection = Section,
                 !.RelTextSections = Append(@, Newest(w))]

createRelTextSection(w, IsELF64, Section) ==
  registerRelTextSection(
    createSection(w, RelTextSectionName(IsELF64),
                  IF IsELF64 THEN SHT_RELA ELSE SHT_REL, 0,
                  IF IsELF64 THEN 8 ELSE 4, IF IsELF64 THEN 24 ELSE 8),
    Section)

addRelocationsToNewest(w, OffsetInSection, Fixups) ==
  IF w.failed THEN w ELSE addRelocations(w, Newest(w), OffsetInSection, Fixups)

\* A wrong writeFunctionCode: the relocation section is looked up or created
\* without asking whether the function has fixups.
writeFunctionFixupsAlways(w, Section, OffsetInSection, Fixups) ==
  LET IsELF64 == isELF64(w.TargetArch)
      RSI == FindRelSection(w, w.RelTextSections, RelTextSectionName(IsELF64))
  IN IF RSI # 0
     THEN addRelocations(w, w.RelTextSections[RSI], OffsetInSection, Fixups)
     ELSE addRelocationsToNewest(createRelTextSection(w, IsELF64, Section),
                                 OffsetInSection, Fixups)

\* A wrong writeFunctionCode: the fixups are handed on with no base offset.
writeFunctionFixupsNoBase(w, Section, OffsetInSection, Fixups) ==
  LET IsELF64 == isELF64(w.TargetArch)
      RSI == FindRelSection(w, w.RelTextSections, RelTextSectionName(IsELF64))
  IN IF Fixups = <<>> THEN w
     ELSE IF RSI # 0
     THEN addRelocations(w, w.RelTextSections[RSI], 0, Fixups)
     ELSE addRelocationsToNewest(createRelTextSection(w, IsELF64, Section),
                                 0, Fixups)

\* The relocation part of writeFunctionCode.
writeFunctionFixups(w, Section, OffsetInSection, Fixups) ==
  LET IsELF64 == isELF64(w.TargetArch)
      RSI == FindRelSection(w, w.RelTextSections, RelTextSectionName(IsELF64))
  IN IF Fixups = <<>> THEN w
     ELSE IF RSI # 0
     THEN addRelocations(w, w.RelTextSections[RSI], OffsetInSection, Fixups)
     ELSE addRelocationsToNewest(createRelTextSection(w, IsELF64, Section),
                                 OffsetInSection, Fixups)

\* A wrong writeFunctionCode: the offset is read after the data is appended.
writeFunctionIntoOffsetAfter(w, FuncName, IsInternal, Asm) ==
  LET Section == w.TextSections[1]
      OffsetInSection == w.Sections[Section].sh_size + Len(Asm.Buffer)
      SymbolSize == 0
  IN IF w.failed THEN w
     ELSE writeFunctionFixups(
            StrAdd(createDefinedSym(appendData(Handed(w, Section, Asm), Section,
                                               Asm.Buffer),
                                    FuncName,
                                    FunctionSymbolType(IsInternal),
                                    FunctionSymbolBinding(IsInternal), Section,
                                    OffsetInSection, SymbolSize),
                   StrTab, FuncName),
            Section, OffsetInSection, Asm.Fixups)

\* writeFunctionCode once the text section is at hand.
writeFunctionInto(w, FuncName, IsInternal, Asm) ==
  LET Section == w.TextSections[1]
      OffsetInSection == w.Sections[Section].sh_size
      SymbolSize == 0
  IN IF w.failed THEN w
     ELSE writeFunctionFixups(
            StrAdd(createDefinedSym(appendData(Handed(w, Section, Asm), Section,
                                               Asm.Buffer),
                                    FuncName,
                                    FunctionSymbolType(IsInternal),
                                    FunctionSymbolBinding(IsInternal), Section,
                                    OffsetInSection, SymbolSize),
                   StrTab, FuncName),
            Section, OffsetInSection, Asm.Fixups)

\* ELFObjectWriter::writeFunctionCode
writeFunctionCode(w, FuncName, IsInternal, Asm) ==
  IF w.SectionNumbersAssigned THEN [w EXCEPT !.failed = TRUE]
  ELSE writeFunctionInto(TextSectionFor(w), FuncName, IsInternal, Asm)

----------------------------------------------------------------------------
\* typeWidthInBytes / typeAlignInBytes of the pooled types.
typeWidthInBytes(Ty) == IF Ty = "f32" THEN 4 ELSE 8
typeAlignInBytes(Ty) == IF Ty = "f32" THEN 4 ELSE 8

\* The decimal digit of a one-digit width, as a character.
DigitChar(n) == 48 + n

\* A wrong loop body: the label is not added to .strtab.
writePoolConstantNoStrAdd(w, Section, C, OffsetInSection, WriteAmt) ==
  [createDefinedSym(w, C.Label, STT_NOTYPE, STB_LOCAL, Section, OffsetInSection, 0)
     EXCEPT !.Str = writeBytes(@, Slice(C.Value, 0, WriteAmt)),
            !.Sections[Section].Submitted = @ \o Slice(C.Value, 0, WriteAmt)]

\* One constant of the pool: its symbol, its name, its bytes.
writePoolConstant(w, Section, C, OffsetInSection, WriteAmt) ==
  [StrAdd(createDefinedSym(w, C.Label, STT_NOTYPE, STB_LOCAL, Section,
                           OffsetInSection, 0),
          StrTab, C.Label)
     EXCEPT !.Str = writeBytes(@, Slice(C.Value, 0, WriteAmt)),
            !.Sections[Section].Submitted = @ \o Slice(C.Value, 0, WriteAmt)]

RECURSIVE writePoolConstants(_, _, _, _, _)
\* The loop of writeConstantPool over the pool, and the closing setSize.
writePoolConstants(w, Section, Pool, OffsetInSection, WriteAmt) ==
  IF Pool = <<>> THEN [w EXCEPT !.Sections[Section].sh_size = OffsetInSection]
  ELSE writePoolConstants(
         writePoolConstant(w, Section, Head(Pool), OffsetInSection, WriteAmt),
         Section, Tail(Pool), OffsetInSection + WriteAmt, WriteAmt)

\* writeConstantPool once the section is created: registration, placement, data.
writePoolInto(w, Pool, Align, WriteAmt) ==
  IF w.failed THEN w
  ELSE writePoolConstants(
         alignAndSetFileOffset([w EXCEPT !.RoDataSections = Append(@, Newest(w))],
                               Newest(w), Align),
         Newest(w), Pool, 0, WriteAmt)

\* A wrong writeConstantPool: no early return on an empty pool.
writeConstantPoolAlways(w, Ty, Pool) ==
  LET Align == typeAlignInBytes(Ty)
      EntSize == typeWidthInBytes(Ty)
      WriteAmt == IF EntSize < 20 THEN EntSize ELSE 20
  IN writePoolInto(
       createSection(w, RoDataCstPrefix \o <<DigitChar(WriteAmt)>>,
                     SHT_PROGBITS, SHF_ALLOC + SHF_MERGE, Align, WriteAmt),
       Pool, Align, WriteAmt)

\* ELFObjectWriter::writeConstantPool<ConstType>(Ty), Pool = Ctx.getConstantPool(Ty)
writeConstantPool(w, Ty, Pool) ==
  LET Align == typeAlignInBytes(Ty)
      EntSize == typeWidthInBytes(Ty)
      WriteAmt == IF EntSize < 20 THEN EntSize ELSE 20
  IN IF Pool = <<>> THEN w
     ELSE writePoolInto(
            createSection(w, RoDataCstPrefix \o <<DigitChar(WriteAmt)>>,
                          SHT_PROGBITS, SHF_ALLOC + SHF_MERGE, Align, WriteAmt),
            Pool, Align, WriteAmt)

----------------------------------------------------------------------------
\* A wrong e_ident: padded by EI_NIDENT bytes, not up to EI_NIDENT.
ELFIdentPadNIdent(IsELF64) ==
  writeZeroPadding(
    write8(write8(write8(write8(write8(
      writeBytes(EmptyStr, ElfMagic),
      IF IsELF64 THEN ELFCLASS64 ELSE ELFCLASS32),
      ELFDATA2LSB), EV_CURRENT), ELFOSABI_NONE), 0),
    EI_NIDENT)

\* The e_ident bytes written by writeELFHeaderInternal, as a stream of their own.
ELFIdent(IsELF64) ==
  writeZeroPadding(
    write8(write8(write8(write8(write8(
      writeBytes(EmptyStr, ElfMagic),
      IF IsELF64 THEN ELFCLASS64 ELSE ELFCLASS32),
      ELFDATA2LSB), EV_CURRENT), ELFOSABI_NONE), 0),
    EI_NIDENT - EI_PAD)

\* sizeof(Elf64_Ehdr) or sizeof(Elf32_Ehdr), and sizeof of the two Shdr types.
EhdrSize(IsELF64) == IF IsELF64 THEN 64 ELSE 52
ShdrSize(IsELF64) == IF IsELF64 THEN 64 ELSE 40

\* The whole header written by writeELFHeaderInternal, as a stream of its own.
ELFHeader(Arch, IsELF64, SectionHeaderOffset, SectHeaderStrIndex, NumSections) ==
  writeLE16(writeLE16(writeLE16(writeLE16(writeLE16(writeLE16(
    writeELFWord(
      writeAddrOrOffset(writeAddrOrOffset(writeAddrOrOffset(
        writeELFWord(
          writeLE16(writeLE16(ELFIdent(IsELF64), ET_REL), getELFMachine(Arch)),
          IsELF64, 1),
        IsELF64, 0), IsELF64, 0), IsELF64, SectionHeaderOffset),
      IsELF64, getELFFlags(Arch)),
    EhdrSize(IsELF64)), 0), 0), ShdrSize(IsELF64)),
    NumSections), SectHeaderStrIndex)

\* A wrong writeELFHeaderInternal: only the section count is checked.
writeELFHeaderInternalCountOnly(w, IsELF64, SectionHeaderOffset, SectHeaderStrIndex, NumSections) ==
  IF NumSections >= SHN_LORESERVE
  THEN [w EXCEPT !.Str = writeBytes(@, ELFIdent(IsELF64).buf), !.failed = TRUE]
  ELSE [w EXCEPT !.Str = writeBytes(@,
          ELFHeader(w.TargetArch, IsELF64, SectionHeaderOffset,
                    SectHeaderStrIndex, NumSections).buf)]

\* ELFObjectWriter::writeELFHeaderInternal<IsELF64>: the bytes go to the sink
\* at its position; the two assertions stand after e_ident.
writeELFHeaderInternal(w, IsELF64, SectionHeaderOffset, SectHeaderStrIndex, NumSections) ==
  IF NumSections >= SHN_LORESERVE \/ SectHeaderStrIndex >= SHN_LORESERVE
  THEN [w EXCEPT !.Str = writeBytes(@, ELFIdent(IsELF64).buf), !.failed = TRUE]
  ELSE [w EXCEPT !.Str = writeBytes(@,
          ELFHeader(w.TargetArch, IsELF64, SectionHeaderOffset,
                    SectHeaderStrIndex, NumSections).buf)]

\* A wrong writeInitialELFHeader: it seeks to offset 0 before it writes.
writeInitialELFHeaderAtZero(w) ==
  IF w.SectionNumbersAssigned THEN [w EXCEPT !.failed = TRUE]
  ELSE writeELFHeaderInternal([w EXCEPT !.Str = seek(@, 0)],
                              isELF64(w.TargetArch), 0, 0, 0)

\* ELFObjectWriter::writeInitialELFHeader
writeInitialELFHeader(w) ==
  IF w.SectionNumbersAssigned THEN [w EXCEPT !.failed = TRUE]
  ELSE writeELFHeaderInternal(w, isELF64(w.TargetArch), 0, 0, 0)

\* A wrong writeDataInitializer: it goes on to StrTab->add(VarName) and returns.
writeDataInitializerAddsName(w, VarName, Data) ==
  IF w.SectionNumbersAssigned THEN [w EXCEPT !.failed = TRUE]
  ELSE StrAdd(w, StrTab, VarName)

\* ELFObjectWriter::writeDataInitializer: the assertion, then llvm_unreachable,
\* which aborts where assertions do; the statement behind it is never reached.
writeDataInitializer(w, VarName, Data) == [w EXCEPT !.failed = TRUE]

----------------------------------------------------------------------------
\* setNumber, setNameStrIndex and push_back of one section.
NumberSection(w, Sec, Num) ==
  [w EXCEPT !.Sections[Sec].Number = Num,
            !.Sections[Sec].sh_name =
               StringTableIndex(w.Sections[ShStrTab].Strings, w.Sections[Sec].Name),
            !.Sections[Sec].NameIndexSet =
               IF @ # "early" /\ w.Sections[ShStrTab].Frozen
               THEN "late" ELSE "early",
            !.AllSections = Append(@, Sec)]

\* A wrong pairing: sh_info gets the relocation section's own number.
NumberRelSectionOwnInfo(w, UserSection, RelSection, Num) ==
  NumberSection([w EXCEPT !.Sections[RelSection].sh_info = Num], RelSection, Num)

\* The relocation section at the iterator is numbered right after its user
\* section, whose number becomes its sh_info.
NumberRelSection(w, UserSection, RelSection, Num) ==
  NumberSection([w EXCEPT !.Sections[RelSection].sh_info =
                             w.Sections[UserSection].Number],
                RelSection, Num)

RECURSIVE assignRelSectionNumInPairsLoop(_, _, _, _, _)
\* The loop of assignRelSectionNumInPairs: RelIt is the position of the
\* relocation-section iterator (1-based; past the end when > Len(RelSections)).
assignRelSectionNumInPairsLoop(w, Cur, UserSections, RelSections, RelIt) ==
  IF UserSections = <<>> THEN [w |-> w, Cur |-> Cur, RelIt |-> RelIt]
  ELSE IF RelIt <= Len(RelSections)
          /\ w.Sections[RelSections[RelIt]].RelatedSection = Head(UserSections)
  THEN assignRelSectionNumInPairsLoop(
         NumberRelSection(NumberSection(w, Head(UserSections), Cur),
                          Head(UserSections), RelSections[RelIt], Cur + 1),
         Cur + 2, Tail(UserSections), RelSections, RelIt + 1)
  ELSE assignRelSectionNumInPairsLoop(
         NumberSection(w, Head(UserSections), Cur),
         Cur + 1, Tail(UserSections), RelSections, RelIt)

\* assert(RelIt == RelE)
AllRelSectionsConsumed(r, RelSections) ==
  IF r.RelIt = Len(RelSections) + 1 THEN r ELSE [r EXCEPT !.w.failed = TRUE]

\* ELFObjectWriter::assignRelSectionNumInPairs on the writer and counter of r.
assignRelSectionNumInPairs(r, UserSections, RelSections) ==
  IF r.w.failed THEN r
  ELSE AllRelSectionsConsumed(
         assignRelSectionNumInPairsLoop(r.w, r.Cur, UserSections, RelSections, 1),
         RelSections)

RECURSIVE assignRelLinkNum(_, _, _)
\* ELFObjectWriter::assignRelLinkNum
assignRelLinkNum(w, SymTabNumber, RelSections) ==
  IF RelSections = <<>> THEN w
  ELSE assignRelLinkNum([w EXCEPT !.Sections[Head(RelSections)].sh_link = SymTabNumber],
                        SymTabNumber, Tail(RelSections))

\* The symbols in the order the symbol table emits them: locals, then the rest.
IsLocal(sym) == sym.Binding = STB_LOCAL
IsNotLocal(sym) == sym.Binding # STB_LOCAL
SymbolOrder(Syms) == SelectSeq(Syms, IsLocal) \o SelectSeq(Syms, IsNotLocal)

\* ELFSymbolTableSection::getNumLocals
getNumLocals(Syms) == Len(SelectSeq(Syms, IsLocal))

\* SymTab->setInfoNum(SymTab->getNumLocals())
SymTabInfoNum(w) == getNumLocals(w.Symbols)

\* The three user buckets of assignSectionNumbersInfo, in their order.
assignTextNumbers(r) == assignRelSectionNumInPairs(r, r.w.TextSections, r.w.RelTextSections)
assignDataNumbers(r) == assignRelSectionNumInPairs(r, r.w.DataSections, r.w.RelDataSections)
assignRoDataNumbers(r) ==
  assignRelSectionNumInPairs(r, r.w.RoDataSections, r.w.RelRoDataSections)

\* A wrong order of the tables: .symtab before .shstrtab.
assignTableNumbersSymTabFirst(r) ==
  NumberSection(NumberSection(NumberSection(r.w, SymTab, r.Cur),
                              ShStrTab, r.Cur + 1),
                StrTab, r.Cur + 2)

\* .shstrtab, .symtab, .strtab take the next three numbers.
assignTableNumbers(r) ==
  NumberSection(NumberSection(NumberSection(r.w, ShStrTab, r.Cur),
                              SymTab, r.Cur + 1),
                StrTab, r.Cur + 2)

\* sh_link and sh_info of .symtab.
assignSymTabLinkInfo(w) ==
  [w EXCEPT !.Sections[SymTab].sh_link = w.Sections[StrTab].Number,
            !.Sections[SymTab].sh_info = SymTabInfoNum(w)]

\* sh_link of the relocation sections of the three buckets.
assignAllRelLinkNum(w) ==
  assignRelLinkNum(
    assignRelLinkNum(
      assignRelLinkNum(w, w.Sections[SymTab].Number, w.RelTextSections),
      w.Sections[SymTab].Number, w.RelDataSections),
    w.Sections[SymTab].Number, w.RelRoDataSections)

\* The part of assignSectionNumbersInfo after the user buckets.
assignFixedSections(r) ==
  IF r.w.failed THEN r.w
  ELSE [assignAllRelLinkNum(assignSymTabLinkInfo(assignTableNumbers(r)))
          EXCEPT !.SectionNumbersAssigned = TRUE]

\* ELFObjectWriter::assignSectionNumbersInfo
assignSectionNumbersInfo(w) ==
  IF w.SectionNumbersAssigned THEN [w EXCEPT !.failed = TRUE]
  ELSE assignFixedSections(assignRoDataNumbers(assignDataNumbers(assignTextNumbers(
         [w |-> [w EXCEPT !.Sections[NullSection].Number = 0,
                          !.AllSections = Append(@, NullSection)],
          Cur |-> 1, RelIt |-> 1]))))

----------------------------------------------------------------------------
\* ELFSymbolTableSection::updateIndices: st_name of every symbol.
updateIndices(w) ==
  [w EXCEPT !.Symbols =
     [i \in 1..Len(w.Symbols) |->
        [w.Symbols[i] EXCEPT !.st_name =
           StringTableIndex(w.Sections[StrTab].Strings, w.Symbols[i].Name)]]]

\* One symbol-table record (Elf64_Sym: 24 bytes, Elf32_Sym: 16 bytes).
SymbolRecord(w, Is64, sym) ==
  IF Is64
  THEN LEBytes(sym.st_name, 4) \o <<sym.Binding * 16 + sym.Type>> \o <<0>>
       \o LEBytes(w.Sections[sym.Section].Number, 2)
       \o LEBytes(sym.st_value, 8) \o LEBytes(sym.st_size, 8)
  ELSE LEBytes(sym.st_name, 4) \o LEBytes(sym.st_value, 4)
       \o LEBytes(sym.st_size, 4) \o <<sym.Binding * 16 + sym.Type>> \o <<0>>
       \o LEBytes(w.Sections[sym.Section].Number, 2)

RECURSIVE SymbolRecords(_, _, _)
SymbolRecords(w, Is64, order) ==
  IF order = <<>> THEN <<>>
  ELSE SymbolRecord(w, Is64, Head(order)) \o SymbolRecords(w, Is64, Tail(order))

\* ELFSymbolTableSection::writeData
SymTabData(w, Is64) == SymbolRecords(w, Is64, SymbolOrder(w.Symbols))

RECURSIVE SymbolNumberIn(_, _)
\* Index in the emitted symbol table of the symbol named Name; 0 when none.
SymbolNumberIn(order, Name) ==
  IF order = <<>> THEN 0
  ELSE IF Head(order).Name = Name THEN 0
  ELSE IF \E i \in 2..Len(order) : order[i].Name = Name
       THEN 1 + SymbolNumberIn(Tail(order), Name)
       ELSE 0

\* One relocation record (Elf64_Rela: 24 bytes, Elf32_Rel: 8 bytes).
RelocationRecord(Is64, fx, sym) ==
  IF Is64
  THEN LEBytes(fx.offset, 8) \o LEBytes(fx.kind, 4) \o LEBytes(sym, 4)
       \o LESigned(fx.addend, 8)
  ELSE LEBytes(fx.offset, 4) \o LEBytes(sym * 256 + (fx.kind % 256), 4)

RECURSIVE RelocationRecords(_, _, _)
RelocationRecords(w, Is64, fxs) ==
  IF fxs = <<>> THEN <<>>
  ELSE RelocationRecord(Is64, Head(fxs),
                        SymbolNumberIn(SymbolOrder(w.Symbols), Head(fxs).symbol))
       \o RelocationRecords(w, Is64, Tail(fxs))

\* ELFRelocationSection::writeData
RelocationData(w, Is64, Rel) == RelocationRecords(w, Is64, w.Sections[Rel].Fixups)

\* ELFSection::writeHeader (Elf64_Shdr: 64 bytes, Elf32_Shdr: 40 bytes).
SectionHeader(S, X) ==
  LEBytes(S.sh_name, 4) \o LEBytes(S.sh_type, 4) \o LEBytes(S.sh_flags, X)
  \o LEBytes(0, X) \o LEBytes(S.sh_offset, X) \o LEBytes(S.sh_size, X)
  \o LEBytes(S.sh_link, 4) \o LEBytes(S.sh_info, 4)
  \o LEBytes(S.sh_addralign, X) \o LEBytes(S.sh_entsize, X)

RECURSIVE SectionHeaders(_, _, _)
\* The loop of writeNonUserSections over AllSections.
SectionHeaders(w, IsELF64, All) ==
  IF All = <<>> THEN <<>>
  ELSE SectionHeader(w.Sections[Head(All)], IF IsELF64 THEN 8 ELSE 4)
       \o SectionHeaders(w, IsELF64, Tail(All))

\* One relocation section: placed, sized, written.
writeRelocationSection(w, IsELF64, RelSec) ==
  [w EXCEPT !.Sections[RelSec].sh_size =
               Len(w.Sections[RelSec].Fixups) * w.Sections[RelSec].sh_entsize,
            !.Str = writeBytes(@, RelocationData(w, IsELF64, RelSec))]

RECURSIVE writeRelocationSections(_, _, _)
\* ELFObjectWriter::writeRelocationSections
writeRelocationSections(w, IsELF64, RelSections) ==
  IF RelSections = <<>> THEN w
  ELSE writeRelocationSections(
         writeRelocationSection(
           alignAndSetFileOffset(w, Head(RelSections),
                                 w.Sections[Head(RelSections)].sh_addralign),
           IsELF64, Head(RelSections)),
         IsELF64, Tail(RelSections))

\* ELFObjectWriter::writeAllRelocationSections
writeAllRelocationSections(w, IsELF64) ==
  writeRelocationSections(
    writeRelocationSections(
      writeRelocationSections(w, IsELF64, w.RelTextSections),
      IsELF64, w.RelDataSections),
    IsELF64, w.RelRoDataSections)

\* Alignment of the section-header table.
ShdrAlign(IsELF64) == IF IsELF64 THEN 8 ELSE 4

\* ELFStringTableSection::doLayout and setSize(getSectionDataSize()) of Tab.
layoutStringTable(w, Tab) ==
  [w EXCEPT !.Sections[Tab].Frozen = TRUE,
            !.Sections[Tab].sh_size = Len(StringTableData(w.Sections[Tab].Strings))]

\* Str.writeBytes(Tab->getSectionData())
writeStringTable(w, Tab) ==
  [w EXCEPT !.Str = writeBytes(@, StringTableData(w.Sections[Tab].Strings))]

\* writeNonUserSections up to the call of assignSectionNumbersInfo: .shstrtab
\* is laid out, sized, placed and written.
writeShStrTab(w) ==
  writeStringTable(
    alignAndSetFileOffset(layoutStringTable(w, ShStrTab), ShStrTab,
                          w.Sections[ShStrTab].sh_addralign),
    ShStrTab)

\* .symtab is placed, sized and written.
writeSymTab(w, IsELF64) ==
  [alignAndSetFileOffset(w, SymTab, w.Sections[SymTab].sh_addralign)
     EXCEPT !.Sections[SymTab].sh_size =
               Len(w.Symbols) * w.Sections[SymTab].sh_entsize,
            !.Str = writeBytes(@, SymTabData(w, IsELF64))]

\* .strtab is placed and written.
writeStrTab(w) ==
  writeStringTable(
    alignAndSetFileOffset(w, StrTab, w.Sections[StrTab].sh_addralign), StrTab)

\* A wrong final header: e_shstrndx gets the number of .strtab.
writeSectionHeadersAtStrTab(w, IsELF64, al) ==
  writeELFHeaderInternal(
    [w EXCEPT !.Str = seek(writeBytes(al.Str,
                                      SectionHeaders(w, IsELF64, w.AllSections)), 0)],
    IsELF64, al.OffsetInFile, w.Sections[StrTab].Number, Len(w.AllSections))

\* A wrong final header: it is written as a header of the other ELF class.
writeSectionHeadersAtOtherClass(w, IsELF64, al) ==
  writeELFHeaderInternal(
    [w EXCEPT !.Str = seek(writeBytes(al.Str,
                                      SectionHeaders(w, IsELF64, w.AllSections)), 0)],
    ~IsELF64, al.OffsetInFile, w.Sections[ShStrTab].Number, Len(w.AllSections))

\* The section-header table at ShOffset, then the header rewritten at 0.
writeSectionHeadersAt(w, IsELF64, al) ==
  writeELFHeaderInternal(
    [w EXCEPT !.Str = seek(writeBytes(al.Str,
                                      SectionHeaders(w, IsELF64, w.AllSections)), 0)],
    IsELF64, al.OffsetInFile, w.Sections[ShStrTab].Number, Len(w.AllSections))

writeSectionHeaders(w, IsELF64) ==
  writeSectionHeadersAt(w, IsELF64, alignFileOffset(w.Str, ShdrAlign(IsELF64)))

\* A wrong order: the section-header table is emitted before the relocation
\* sections are placed, sized and written.
writeNumberedSectionsTableEarly(w, IsELF64) ==
  IF w.failed THEN w
  ELSE writeAllRelocationSections(
         writeSectionHeaders(
           writeStrTab(writeSymTab(updateIndices(layoutStringTable(w, StrTab)),
                                   IsELF64)),
           IsELF64),
         IsELF64)

\* writeNonUserSections after assignSectionNumbersInfo.
writeNumberedSections(w, IsELF64) ==
  IF w.failed THEN w
  ELSE writeSectionHeaders(
         writeAllRelocationSections(
           writeStrTab(writeSymTab(updateIndices(layoutStringTable(w, StrTab)),
                                   IsELF64)),
           IsELF64),
         IsELF64)

\* ELFObjectWriter::writeNonUserSections; AllSections is its local list.
writeNonUserSections(w) ==
  writeNumberedSections(
    assignSectionNumbersInfo([writeShStrTab(w) EXCEPT !.AllSections = <<>>]),
    isELF64(w.TargetArch))

----------------------------------------------------------------------------
\* Inputs.  An Assembler is its buffer view and its fixups; the k-th function
\* is named by the k-th lower-case letter; a pool is what Ctx.getConstantPool
\* returns: constants with their pool label and the bytes of their value.
Functions ==
  { [IsInternal |-> TRUE,
     Asm |-> [Buffer |-> <<144>>, Fixups |-> <<>>]],
    [IsInternal |-> FALSE,
     Asm |-> [Buffer |-> <<232, 0, 0, 0, 0>>,
              Fixups |-> << [offset |-> 1, kind |-> 2, symbol |-> <<97>>,
                             addend |-> -4] >>]],
    [IsInternal |-> TRUE,
     Asm |-> [Buffer |-> <<232, 0, 0, 0, 0, 233, 0, 0, 0, 0>>,
              Fixups |-> << [offset |-> 1, kind |-> 2, symbol |-> <<97>>,
                             addend |-> -4],
                            [offset |-> 6, kind |-> 2, symbol |-> <<98>>,
                             addend |-> -4] >>]] }

ConstantPools ==
  { [Ty |-> "f32", Pool |-> <<>>],
    [Ty |-> "f32", Pool |-> << [Label |-> <<70, 48>>, Value |-> <<0, 0, 128, 63>>],
                               [Label |-> <<70, 49>>, Value |-> <<0, 0, 0, 64>>] >>],
    [Ty |-> "f64", Pool |-> << [Label |-> <<68, 48>>,
                                Value |-> <<0, 0, 0, 0, 0, 0, 240, 63>>] >>] }

\* The variables handed to writeDataInitializer: a name of its own and the
\* name of the first function, without and with data.
VarNames == {<<118>>, <<97>>}
Initializers == {<<>>, <<1, 2>>}

\* Function symbols are the symbols bound to a text section.
IsTextSection(Sec) == Contains(TextSections, Sec)
NumFunctions == Cardinality({i \in 1..Len(Symbols) : IsTextSection(Symbols[i].Section)})
NumPools == Len(RoDataSections)
FuncNameOf(k) == <<96 + k>>

----------------------------------------------------------------------------
\* The writer object, as the operations take it.
Me ==
  [TargetArch |-> TargetArch, Str |-> [Str EXCEPT !.log = <<>>],
   Sections |-> Sections,
   TextSections |-> TextSections, DataSections |-> DataSections,
   RoDataSections |-> RoDataSections, RelTextSections |-> RelTextSections,
   RelDataSections |-> RelDataSections, RelRoDataSections |-> RelRoDataSections,
   Symbols |-> Symbols, SectionNumbersAssigned |-> SectionNumbersAssigned,
   AllSections |-> AllSections, failed |-> FALSE]

\* The writer after a call; a failed assertion aborts the process.
Finish(w, call, okPhase) ==
  /\ TargetArch' = w.TargetArch
  /\ Str' = w.Str
  /\ Sections' = w.Sections
  /\ TextSections' = w.TextSections
  /\ DataSections' = w.DataSections
  /\ RoDataSections' = w.RoDataSections
  /\ RelTextSections' = w.RelTextSections
  /\ RelDataSections' = w.RelDataSections
  /\ RelRoDataSections' = w.RelRoDataSections
  /\ Symbols' = w.Symbols
  /\ SectionNumbersAssigned' = w.SectionNumbersAssigned
  /\ AllSections' = w.AllSections
  /\ phase' = IF w.failed THEN "Aborted" ELSE okPhase
  /\ result' = IF w.failed THEN "error" ELSE "ok"
  /\ lastCall' = call

\* The writer after a public operation: of an aborted call only the operation
\* is kept.
Return(w, call, okPhase) ==
  Finish(w, IF w.failed THEN [op |-> call.op] ELSE call, okPhase)

Alive == phase \in {"Building", "Done"}

Init ==
  /\ TargetArch \in TargetArchs
  /\ \E w \in {Constructor(TargetArch)} :
        /\ Str = w.Str
        /\ Sections = w.Sections
        /\ TextSections = w.TextSections
        /\ DataSections = w.DataSections
        /\ RoDataSections = w.RoDataSections
        /\ RelTextSections = w.RelTextSections
        /\ RelDataSections = w.RelDataSections
        /\ RelRoDataSections = w.RelRoDataSections
        /\ Symbols = w.Symbols
        /\ SectionNumbersAssigned = w.SectionNumbersAssigned
        /\ AllSections = w.AllSections
  /\ phase = "Building"
  /\ lastCall = [op |-> "ELFObjectWriter"]
  /\ result = "ok"
  /\ headerCalls = 0

WriteInitialELFHeader ==
  /\ Alive
  /\ phase = "Building" => headerCalls < MaxHeaderCalls
  /\ headerCalls' = IF phase = "Building" THEN headerCalls + 1 ELSE headerCalls
  /\ \E w \in {writeInitialELFHeader(Me)} :
       Return(w, [op |-> "writeInitialELFHeader"], phase)

WriteFunctionCode ==
  /\ Alive
  /\ phase = "Building" => NumFunctions + NumPools < MaxCalls
  /\ \E F \in Functions :
       \E FuncName \in {FuncNameOf(NumFunctions + 1)} :
         \E w \in {writeFunctionCode(Me, FuncName, F.IsInternal, F.Asm)} :
           Return(w, [op |-> "writeFunctionCode", FuncName |-> FuncName,
                      IsInternal |-> F.IsInternal, Asm |-> F.Asm], phase)
  /\ UNCHANGED headerCalls

WriteConstantPool ==
  /\ Alive
  /\ \E P \in ConstantPools :
       /\ (phase = "Building" /\ P.Pool # <<>>) => NumFunctions + NumPools < MaxCalls
       /\ \E w \in {writeConstantPool(Me, P.Ty, P.Pool)} :
            Return(w, [op |-> "writeConstantPool", Ty |-> P.Ty, Pool |-> P.Pool],
                   phase)
  /\ UNCHANGED headerCalls

WriteDataInitializer ==
  /\ Alive
  /\ \E VarName \in VarNames, Data \in Initializers :
       \E w \in {writeDataInitializer(Me, VarName, Data)} :
         Return(w, [op |-> "writeDataInitializer", VarName |-> VarName,
                    Data |-> Data], phase)
  /\ UNCHANGED headerCalls

WriteNonUserSections ==
  /\ Alive
  /\ \E w \in {writeNonUserSections(Me)} :
       Return(w, [op |-> "writeNonUserSections"], "Done")
  /\ UNCHANGED headerCalls

Next ==
  \/ WriteInitialELFHeader
  \/ WriteFunctionCode
  \/ WriteConstantPool
  \/ WriteDataInitializer
  \/ WriteNonUserSections

Spec == Init /\ [][Next]_vars

----------------------------------------------------------------------------
\* The two private helpers alignFileOffset and writeELFHeaderInternal on
\* their own: applied once, to a writer just constructed whose sink holds
\* Pos bytes of earlier output, with arguments from both sides of their
\* assertions.
MaxPos == 33
Alignments == {0, 1, 2, 3, 4, 8, 12, 16, 32}
HeaderNumbers == {0, 4, SHN_LORESERVE - 1, SHN_LORESERVE, 65535, 65536, 65540}
HeaderOffsets == {0, 200}

\* Earlier output: bytes that are not zero.
EarlierOutput(Pos) == [i \in 1..Pos |-> 255]

UnitInit ==
  /\ TargetArch \in TargetArchs
  /\ \E Pos \in 0..MaxPos : \E w \in {Constructor(TargetArch)} :
        /\ Str = [w.Str EXCEPT !.buf = EarlierOutput(Pos), !.pos = Pos]
        /\ Sections = w.Sections
        /\ TextSections = w.TextSections
        /\ DataSections = w.DataSections
        /\ RoDataSections = w.RoDataSections
        /\ RelTextSections = w.RelTextSections
        /\ RelDataSections = w.RelDataSections
        /\ RelRoDataSections = w.RelRoDataSections
        /\ Symbols = w.Symbols
        /\ SectionNumbersAssigned = w.SectionNumbersAssigned
        /\ AllSections = w.AllSections
  /\ phase = "Building"
  /\ lastCall = [op |-> "ELFObjectWriter"]
  /\ result = "ok"
  /\ headerCalls = 0

AlignFileOffset ==
  /\ phase = "Building"
  /\ \E Align \in Alignments :
       \E al \in {alignFileOffset(Me.Str, Align)} :
         Finish([Me EXCEPT !.Str = al.Str, !.failed = al.failed],
                [op |-> "alignFileOffset", Align |-> Align,
                 OffsetInFile |-> al.OffsetInFile], "Applied")
  /\ UNCHANGED headerCalls

WriteELFHeaderInternal ==
  /\ phase = "Building"
  /\ \E SectionHeaderOffset \in HeaderOffsets :
       \E SectHeaderStrIndex \in HeaderNumbers, NumSections \in HeaderNumbers :
         \E w \in {writeELFHeaderInternal(Me, isELF64(TargetArch),
                       SectionHeaderOffset, SectHeaderStrIndex, NumSections)} :
           Finish(w, [op |-> "writeELFHeaderInternal",
                      SectionHeaderOffset |-> SectionHeaderOffset,
                      SectHeaderStrIndex |-> SectHeaderStrIndex,
                      NumSections |-> NumSections], "Applied")
  /\ UNCHANGED headerCalls

UnitNext ==
  \/ AlignFileOffset
  \/ WriteELFHeaderInternal

UnitSpec == UnitInit /\ [][UnitNext]_vars

----------------------------------------------------------------------------
\* Reading the state and the file.

FileIs64 == isELF64(TargetArch)

RECURSIVE LEValue(_)
\* The number that little-endian bytes encode.
LEValue(bytes) ==
  IF bytes = <<>> THEN 0 ELSE Head(bytes) + 256 * LEValue(Tail(bytes))

Range(s) == {s[i] : i \in 1..Len(s)}

AllUserSections == Range(TextSections) \cup Range(DataSections) \cup Range(RoDataSections)
AllRelSections ==
  Range(RelTextSections) \cup Range(RelDataSections) \cup Range(RelRoDataSections)

\* The bytes of the file that the header of section Sec claims for it.
FileBytes(Sec) == Slice(Str.buf, Sections[Sec].sh_offset, Sections[Sec].sh_size)

\* writeInitialELFHeader ran once, and before anything else was written.
HeaderFirst ==
  /\ headerCalls = 1
  /\ \A Sec \in AllUserSections : Sections[Sec].sh_offset >= EhdrSize(FileIs64)

BookkeepingSections ==
  /\ Len(Sections) >= 4
  /\ Sections[NullSection].Name = NullSectionName
  /\ Sections[NullSection].sh_type = SHT_NULL
  /\ Sections[ShStrTab].Name = ShStrTabName
  /\ Sections[ShStrTab].sh_type = SHT_STRTAB
  /\ Sections[SymTab].Name = SymTabName
  /\ Sections[SymTab].sh_type = SHT_SYMTAB
  /\ Sections[StrTab].Name = StrTabName
  /\ Sections[StrTab].sh_type = SHT_STRTAB

----------------------------------------------------------------------------
\* C1: in the finished file, the bytes at [sh_offset, sh_offset + sh_size) of
\* every user section (.text, .rodata.cst<N>) are exactly the bytes handed in
\* for that section, in the order handed in, however the calls of
\* writeFunctionCode and writeConstantPool were interleaved.  Stated for the
\* runs that reserved the header first, it fails: a function written after a
\* constant pool lands behind the pool, outside the range .text is given.
C1_UserSectionBytes ==
  (phase = "Done" /\ HeaderFirst) =>
     \A Sec \in AllUserSections : FileBytes(Sec) = Sections[Sec].Submitted

\* C2, as stated: when the constructor returns, the sink position equals the
\* header size (64 or 52) and the four bookkeeping sections exist.
C2_ConstructorWritesHeader ==
  lastCall.op = "ELFObjectWriter" =>
     /\ tell(Str) = EhdrSize(FileIs64)
     /\ BookkeepingSections

\* C2, amended: when the constructor returns, nothing has been written (the
\* sink is empty, at position 0) and exactly the four bookkeeping sections
\* exist; the dummy header is written by writeInitialELFHeader, and when that
\* is the first operation to write, the sink position after it is the header
\* size, 64 for ELF64 and 52 for ELF32.
C2_HeaderByWriteInitialELFHeader ==
  /\ lastCall.op = "ELFObjectWriter" =>
       /\ Str.buf = <<>> /\ tell(Str) = 0
       /\ Len(Sections) = 4 /\ BookkeepingSections
  /\ (/\ lastCall.op = "writeInitialELFHeader" /\ result = "ok"
      /\ headerCalls = 1 /\ AllUserSections = {}) =>
       /\ tell(Str) = EhdrSize(FileIs64) /\ Len(Str.buf) = EhdrSize(FileIs64)
       /\ EhdrSize(FileIs64) = IF TargetArch = "x8664" THEN 64 ELSE 52
       /\ Len(Sections) = 4 /\ BookkeepingSections

C2_HeaderReserved ==
  /\ lastCall.op = "writeInitialELFHeader" /\ result = "ok"
  /\ headerCalls = 1 /\ AllUserSections = {} /\ tell(Str) > 0

\* C3: once writeNonUserSections has completed, every further call ends in an
\* error; so the writer never sits in Done after any other call has returned.
\* It fails: writeConstantPool on an empty pool returns normally in Done.
C3_DoneIsInert == phase = "Done" => lastCall.op = "writeNonUserSections"

C3_EmptyPoolInDone ==
  phase = "Done" /\ lastCall.op = "writeConstantPool"

\* C4: no section is created while SectionNumbersAssigned is true.  No
\* section carries the mark of a creation after numbering; once the flag is
\* set no step changes the number of sections or the names in .shstrtab; and
\* the one call that reaches createSection then, writeConstantPool on a
\* non-empty pool, never returns normally.
C4_NoSectionAfterNumbering ==
  [][ /\ \A i \in 1..Len(Sections') : ~Sections'[i].CreatedAfterAssign
      /\ SectionNumbersAssigned =>
           /\ Len(Sections') = Len(Sections)
           /\ Sections'[ShStrTab].Strings = Sections[ShStrTab].Strings
           /\ (lastCall'.op = "writeConstantPool" /\ result' = "ok") =>
                 lastCall'.Pool = <<>> ]_vars

C4_CreateSectionRefused ==
  /\ phase = "Aborted" /\ lastCall.op = "writeConstantPool"
  /\ SectionNumbersAssigned /\ Len(AllSections) = Len(Sections)

\* The order assignSectionNumbersInfo is said to give: the null section, .text
\* and its relocation section, the read-only data sections, then .shstrtab,
\* .symtab, .strtab.
ExpectedAllSections ==
  <<NullSection>> \o TextSections \o RelTextSections \o RoDataSections
  \o <<ShStrTab, SymTab, StrTab>>

IsPrefix(p, s) == Len(p) <= Len(s) /\ SubSeq(s, 1, Len(p)) = p

\* C5: after writeNonUserSections the sections are numbered 0 .. n-1 in the
\* order of AllSections, which is: NullSection, .text (followed by its
\* relocation section when it has one), the .rodata.cst<N> sections in
\* creation order, .shstrtab, .symtab, .strtab; and every section created
\* appears in it exactly once.
C5_SectionNumbering ==
  phase = "Done" =>
    /\ \A i \in 1..Len(AllSections) : Sections[AllSections[i]].Number = i - 1
    /\ AllSections = ExpectedAllSections
    /\ Len(TextSections) <= 1 /\ Len(RelTextSections) <= Len(TextSections)
    /\ \A i \in 1..Len(TextSections) :
          Sections[TextSections[i]].Name = TextSectionName
    /\ \A i \in 1..Len(RelTextSections) :
          /\ Sections[RelTextSections[i]].Name = RelTextSectionName(FileIs64)
          /\ Sections[RelTextSections[i]].RelatedSection = TextSections[1]
    /\ \A i \in 1..Len(RoDataSections) :
          /\ IsPrefix(RoDataCstPrefix, Sections[RoDataSections[i]].Name)
          /\ \A j \in 1..Len(RoDataSections) :
                i < j => RoDataSections[i] < RoDataSections[j]
    /\ Len(AllSections) = Len(Sections)
    /\ Range(AllSections) = 1..Len(Sections)

C5_AllKindsNumbered ==
  /\ phase = "Done"
  /\ TextSections # <<>> /\ RelTextSections # <<>> /\ Len(RoDataSections) >= 2
  /\ Sections[StrTab].Number = Len(Sections) - 1

\* C6: once numbers are assigned, sh_info of every relocation section is the
\* number of the user section it relocates, its own number is sh_info + 1 and
\* its sh_link is the number of .symtab; and every user section that was
\* handed at least one fixup has exactly one relocation section.
C6_RelocationSectionLinks ==
  /\ SectionNumbersAssigned =>
       \A R \in AllRelSections :
          /\ Sections[R].RelatedSection \in AllUserSections
          /\ Sections[R].sh_info = Sections[Sections[R].RelatedSection].Number
          /\ Sections[R].Number = Sections[R].sh_info + 1
          /\ Sections[R].sh_link = Sections[SymTab].Number
          /\ Sections[SymTab].Number > 0
  /\ \A U \in AllUserSections :
        Sections[U].FixupsSubmitted > 0 =>
           Cardinality({R \in AllRelSections : Sections[R].RelatedSection = U}) = 1

C6_RelocationSectionNumbered ==
  /\ phase = "Done" /\ AllRelSections # {}
  /\ \E U \in AllUserSections : Sections[U].FixupsSubmitted > 1

\* e_shoff, e_shnum and e_shstrndx as the file holds them.
FileShOff ==
  LEValue(Slice(Str.buf, IF FileIs64 THEN 40 ELSE 32, IF FileIs64 THEN 8 ELSE 4))
FileShNum == LEValue(Slice(Str.buf, EhdrSize(FileIs64) - 4, 2))
FileShStrNdx == LEValue(Slice(Str.buf, EhdrSize(FileIs64) - 2, 2))

RoundUp(x, a) == ((x + a - 1) \div a) * a

\* Where the last section payload ends.
LastPayloadEnd ==
  CHOOSE e \in {Sections[i].sh_offset + Sections[i].sh_size : i \in 1..Len(Sections)} :
    \A i \in 1..Len(Sections) : Sections[i].sh_offset + Sections[i].sh_size <= e

\* C7: in the finished file the header at offset 0 has e_shnum equal to the
\* number of sections in AllSections, e_shstrndx equal to the number of
\* .shstrtab, which is e_shnum - 3, and e_shoff equal to the place where the
\* section-header table starts, which is the end of the last payload rounded
\* up to 8 (ELF64) or 4 (ELF32); with no function and no constant, e_shnum is
\* 4 and e_shstrndx is 1.
C7_FinalHeader ==
  phase = "Done" =>
    /\ FileShNum = Len(AllSections)
    /\ FileShStrNdx = Sections[ShStrTab].Number
    /\ FileShStrNdx = FileShNum - 3
    /\ FileShOff = RoundUp(LastPayloadEnd, IF FileIs64 THEN 8 ELSE 4)
    /\ Len(Str.buf) = FileShOff + FileShNum * ShdrSize(FileIs64)
    /\ HeaderFirst =>
          Slice(Str.buf, FileShOff, FileShNum * ShdrSize(FileIs64))
             = SectionHeaders(Me, FileIs64, AllSections)
    /\ AllUserSections = {} => (FileShNum = 4 /\ FileShStrNdx = 1)

C7_TablePadded ==
  /\ phase = "Done" /\ FileShNum > 4
  /\ LastPayloadEnd % (IF FileIs64 THEN 8 ELSE 4) # 0

\* The alignment each kind of section is said to have.
ExpectedAlign(Sec) ==
  IF Contains(TextSections, Sec) THEN 32
  ELSE IF Contains(RoDataSections, Sec)
       THEN Sections[Sec].Name[Len(Sections[Sec].Name)] - 48
  ELSE IF Sections[Sec].sh_type = SHT_STRTAB THEN 1
  ELSE IF FileIs64 THEN 8 ELSE 4

AlignedSections ==
  \A Sec \in 2..Len(Sections) :
     /\ Sections[Sec].sh_addralign = ExpectedAlign(Sec)
     /\ Sections[Sec].sh_offset % Sections[Sec].sh_addralign = 0
     /\ Sections[Sec].OffsetSets = 1

GapsAreZero == \A p \in Str.pad : Str.buf[p] = 0

\* C8, as stated: in the finished file every section but the null section
\* starts at a multiple of its sh_addralign (.text 32, .rodata.cst<N> N, the
\* string tables 1, .symtab and the relocation sections 8 or 4), and every
\* byte inserted as a gap before a section is zero.
C8_AlignedAndZeroGaps ==
  phase = "Done" => (AlignedSections /\ GapsAreZero)

\* C8, amended: the offsets are aligned as stated in every finished file; the
\* gap bytes are zero in the finished file when writeInitialELFHeader reserved
\* the header before anything else was written (otherwise the final header,
\* written over offset 0, covers whatever gap lies there).
C8_AlignedAndZeroGapsBehindHeader ==
  phase = "Done" => (AlignedSections /\ (HeaderFirst => GapsAreZero))

C8_GapsBehindHeader ==
  /\ phase = "Done" /\ HeaderFirst
  /\ Cardinality(Str.pad) > 12 /\ Len(RoDataSections) = 2 /\ TextSections # <<>>

\* C9: a function handed in as internal gets a NOTYPE/LOCAL symbol, any other
\* function a FUNC/GLOBAL one, every pooled constant a NOTYPE/LOCAL one; the
\* emitted .symtab lists every LOCAL symbol before every GLOBAL one, the null
\* symbol first, and its sh_info is the number of LOCAL symbols, so the index
\* of the first GLOBAL one.
C9_SymbolTable ==
  /\ (lastCall.op = "writeFunctionCode" /\ result = "ok") =>
        /\ Symbols[Len(Symbols)].Name = lastCall.FuncName
        /\ Symbols[Len(Symbols)].Type =
              (IF lastCall.IsInternal THEN STT_NOTYPE ELSE STT_FUNC)
        /\ Symbols[Len(Symbols)].Binding =
              (IF lastCall.IsInternal THEN STB_LOCAL ELSE STB_GLOBAL)
  /\ (lastCall.op = "writeConstantPool" /\ result = "ok") =>
        \A i \in 1..Len(lastCall.Pool) :
           /\ Symbols[Len(Symbols) - Len(lastCall.Pool) + i].Name
                 = lastCall.Pool[i].Label
           /\ Symbols[Len(Symbols) - Len(lastCall.Pool) + i].Type = STT_NOTYPE
           /\ Symbols[Len(Symbols) - Len(lastCall.Pool) + i].Binding = STB_LOCAL
  /\ \A i \in 1..Len(Symbols) : Symbols[i].Binding \in {STB_LOCAL, STB_GLOBAL}
  /\ phase = "Done" =>
        /\ Sections[SymTab].sh_info =
              Cardinality({i \in 1..Len(Symbols) : Symbols[i].Binding = STB_LOCAL})
        /\ \A i \in 1..Len(Symbols) :
              (i <= Sections[SymTab].sh_info)
                 <=> (SymbolOrder(Symbols)[i].Binding = STB_LOCAL)
        /\ SymbolOrder(Symbols)[1] = Symbols[1] /\ Symbols[1].Name = <<>>
        /\ Sections[SymTab].sh_size = Len(Symbols) * Sections[SymTab].sh_entsize
        /\ HeaderFirst => FileBytes(SymTab) = SymTabData(Me, FileIs64)

C9_GlobalBeforeLocal ==
  /\ phase = "Done" /\ HeaderFirst
  /\ \E i, j \in 1..Len(Symbols) :
        /\ i < j /\ Symbols[i].Binding = STB_GLOBAL /\ Symbols[j].Binding = STB_LOCAL
        /\ Symbols[j].Section \in Range(RoDataSections)

\* C10: the symbol of the k-th function written has size 0, is bound to .text
\* and has for value the size .text had before the call, which is the number
\* of bytes the earlier calls handed in; and the call makes .text grow by
\* exactly the length of its buffer.
C10_FunctionSymbol ==
  [][ (lastCall'.op = "writeFunctionCode" /\ result' = "ok") =>
        /\ Len(TextSections') = 1
        /\ Sections'[TextSections'[1]].Name = TextSectionName
        /\ Len(Symbols') = Len(Symbols) + 1
        /\ Symbols'[Len(Symbols')].Section = TextSections'[1]
        /\ Symbols'[Len(Symbols')].st_size = 0
        /\ Symbols'[Len(Symbols')].st_value =
              (IF TextSections = <<>> THEN 0
               ELSE Len(Sections[TextSections[1]].Submitted))
        /\ Sections'[TextSections'[1]].sh_size =
              Symbols'[Len(Symbols')].st_value + Len(lastCall'.Asm.Buffer)
        /\ \A i \in 1..Len(Symbols) : Symbols'[i] = Symbols[i] ]_vars

C10_ThirdFunction ==
  /\ lastCall.op = "writeFunctionCode" /\ result = "ok"
  /\ NumFunctions = 3 /\ Symbols[Len(Symbols)].st_value > 5

\* C11: there is at most one text section, named .text, and at most one text
\* relocation section, named .rela.text on ELF64 and .rel.text on ELF32; the
\* relocation section exists exactly when some writeFunctionCode carried a
\* fixup; and a writeFunctionCode without fixups neither creates nor changes a
\* relocation section.
C11_OneTextOneRelText ==
  [][ /\ Len(TextSections') <= 1 /\ Len(RelTextSections') <= 1
      /\ Cardinality({i \in 1..Len(Sections') : Sections'[i].Name = TextSectionName})
            = Len(TextSections')
      /\ Cardinality({i \in 1..Len(Sections') :
                        Sections'[i].sh_type \in {SHT_REL, SHT_RELA}})
            = Len(RelTextSections')
      /\ \A i \in 1..Len(TextSections') :
            Sections'[TextSections'[i]].Name = TextSectionName
      /\ \A i \in 1..Len(RelTextSections') :
            Sections'[RelTextSections'[i]].Name =
               (IF TargetArch = "x8664" THEN RelaPrefix ELSE RelPrefix)
                  \o TextSectionName
      /\ (RelTextSections' # <<>>) <=>
            (TextSections' # <<>>
               /\ Sections'[TextSections'[1]].FixupsSubmitted > 0)
      /\ (/\ lastCall'.op = "writeFunctionCode" /\ result' = "ok"
          /\ lastCall'.Asm.Fixups = <<>>) =>
            /\ RelTextSections' = RelTextSections
            /\ \A R \in Range(RelTextSections) : Sections'[R] = Sections[R]
            /\ Len(Sections') = Len(Sections) + (IF TextSections = <<>> THEN 1 ELSE 0)
    ]_vars

C11_PlainFunctionAfterFixups ==
  /\ lastCall.op = "writeFunctionCode" /\ result = "ok"
  /\ lastCall.Asm.Fixups = <<>> /\ RelTextSections # <<>>

\* The fixups of the text relocation section; none while there is no section.
TextFixups == IF RelTextSections = <<>> THEN <<>> ELSE Sections[RelTextSections[1]].Fixups

\* The size of .text; 0 while there is no section.
TextSize == IF TextSections = <<>> THEN 0 ELSE Sections[TextSections[1]].sh_size

\* C12: every fixup handed to writeFunctionCode is appended to the text
\* relocation section, behind the entries of the earlier functions and in the
\* order of the function's list, with its offset increased by the size .text
\* had before the function's bytes were appended; and the r_offset fields of
\* the emitted relocation section are these offsets.
C12_FixupsAppendedWithBase ==
  [][ /\ (lastCall'.op = "writeFunctionCode" /\ result' = "ok") =>
            /\ Len(TextFixups') = Len(TextFixups) + Len(lastCall'.Asm.Fixups)
            /\ SubSeq(TextFixups', 1, Len(TextFixups)) = TextFixups
            /\ \A i \in 1..Len(lastCall'.Asm.Fixups) :
                  TextFixups'[Len(TextFixups) + i] =
                     [lastCall'.Asm.Fixups[i] EXCEPT !.offset = @ + TextSize]
      /\ (lastCall'.op # "writeFunctionCode" /\ phase' # "Aborted") =>
            TextFixups' = TextFixups
      /\ (phase' = "Done" /\ HeaderFirst') =>
            \A R \in AllRelSections' :
               /\ Sections'[R].sh_size = Len(Sections'[R].Fixups) * Sections'[R].sh_entsize
               /\ \A k \in 1..Len(Sections'[R].Fixups) :
                     LEValue(Slice(Str'.buf,
                                   Sections'[R].sh_offset
                                      + (k - 1) * Sections'[R].sh_entsize,
                                   IF TargetArch = "x8664" THEN 8 ELSE 4))
                        = Sections'[R].Fixups[k].offset
    ]_vars

C12_FixupAtOneOfFunctionAtOne ==
  /\ lastCall.op = "writeFunctionCode" /\ result = "ok"
  /\ Len(lastCall.Asm.Fixups) = 1 /\ lastCall.Asm.Fixups[1].offset = 1
  /\ Symbols[Len(Symbols)].st_value = 1
  /\ TextFixups[Len(TextFixups)].offset = 2

\* The width N of the constants of a pooled type.
WidthOf(Ty) == IF Ty = "f32" THEN 4 ELSE 8

RECURSIVE PoolBytes(_)
\* The values of a pool, one after the other.
PoolBytes(Pool) ==
  IF Pool = <<>> THEN <<>> ELSE Head(Pool).Value \o PoolBytes(Tail(Pool))

\* C13: writeConstantPool on an empty pool changes nothing (no section, no
\* symbol, no string, no byte, no padding).  On a pool of count > 0 constants
\* of width N it creates one section .rodata.cst<N> with alignment N and
\* entry size N, appended to RoDataSections; adds one NOTYPE/LOCAL symbol per
\* constant, the i-th (from 0) with value i*N; writes exactly the N*count
\* bytes of the constants, at the section's offset; and sets the section's
\* size to N*count.
C13_ConstantPoolEffect ==
  [][ (lastCall'.op = "writeConstantPool" /\ result' = "ok") =>
        /\ lastCall'.Pool = <<>> =>
              /\ Str'.buf = Str.buf /\ tell(Str') = tell(Str)
              /\ Str'.pad = Str.pad /\ Str'.log = <<>>
              /\ UNCHANGED <<Sections, TextSections, DataSections,
                             RoDataSections, RelTextSections, RelDataSections,
                             RelRoDataSections, Symbols,
                             SectionNumbersAssigned, AllSections>>
        /\ lastCall'.Pool # <<>> =>
              /\ Len(Sections') = Len(Sections) + 1
              /\ RoDataSections' = Append(RoDataSections, Len(Sections'))
              /\ UNCHANGED <<TextSections, DataSections, RelTextSections,
                             RelDataSections, RelRoDataSections>>
              /\ Sections'[Len(Sections')].Name =
                    RoDataCstPrefix \o <<48 + WidthOf(lastCall'.Ty)>>
              /\ Sections'[Len(Sections')].sh_type = SHT_PROGBITS
              /\ Sections'[Len(Sections')].sh_addralign = WidthOf(lastCall'.Ty)
              /\ Sections'[Len(Sections')].sh_entsize = WidthOf(lastCall'.Ty)
              /\ Sections'[Len(Sections')].sh_size =
                    WidthOf(lastCall'.Ty) * Len(lastCall'.Pool)
              /\ Sections'[Len(Sections')].sh_offset =
                    RoundUp(tell(Str), WidthOf(lastCall'.Ty))
              /\ tell(Str') = Sections'[Len(Sections')].sh_offset
                                 + WidthOf(lastCall'.Ty) * Len(lastCall'.Pool)
              /\ Len(Str'.buf) = tell(Str')
              /\ SubSeq(Str'.buf, 1, tell(Str)) = SubSeq(Str.buf, 1, tell(Str))
              /\ Slice(Str'.buf, Sections'[Len(Sections')].sh_offset,
                       WidthOf(lastCall'.Ty) * Len(lastCall'.Pool))
                    = PoolBytes(lastCall'.Pool)
              /\ Len(Symbols') = Len(Symbols) + Len(lastCall'.Pool)
              /\ SubSeq(Symbols', 1, Len(Symbols)) = Symbols
              /\ \A i \in 1..Len(lastCall'.Pool) :
                    /\ Symbols'[Len(Symbols) + i].Name = lastCall'.Pool[i].Label
                    /\ Symbols'[Len(Symbols) + i].Type = STT_NOTYPE
                    /\ Symbols'[Len(Symbols) + i].Binding = STB_LOCAL
                    /\ Symbols'[Len(Symbols) + i].Section = Len(Sections')
                    /\ Symbols'[Len(Symbols) + i].st_value
                          = (i - 1) * WidthOf(lastCall'.Ty)
              /\ \A i \in 1..Len(Sections) :
                    i \notin {ShStrTab, StrTab} => Sections'[i] = Sections[i]
    ]_vars

C13_TwoConstantsPadded ==
  /\ lastCall.op = "writeConstantPool" /\ result = "ok" /\ Len(lastCall.Pool) = 2
  /\ Str.pad # {} /\ Symbols[Len(Symbols)].st_value = 4

\* The moves of the sink's position during the step just taken.
Moves == Str.log

\* C14: the sink's position never decreases, neither from one call to the
\* next nor within a call, but for one seek to offset 0: it happens in
\* writeNonUserSections only, once, right after the section-header table has
\* been written at the end of the file, and only the rewrite of the header
\* follows it.  Every section's file offset is set once: at creation for the
\* user sections, in writeNonUserSections for the others.
C14_PositionMonotonic ==
  [][ /\ \A i \in 1..Len(Moves') :
            /\ Moves'[i].from = (IF i = 1 THEN tell(Str) ELSE Moves'[i - 1].to)
            /\ Moves'[i].op = "write" => Moves'[i].to >= Moves'[i].from
            /\ Moves'[i].op = "seek" =>
                  /\ lastCall'.op = "writeNonUserSections" /\ result' = "ok"
                  /\ Moves'[i].to = 0
                  /\ i = Len(Moves') - 1 /\ i > 1
                  /\ Moves'[i - 1].op = "write"
                  /\ Moves'[i - 1].to = Len(Str'.buf)
                  /\ Moves'[i - 1].to - Moves'[i - 1].from
                        = Len(AllSections') * ShdrSize(isELF64(TargetArch))
                  /\ Moves'[i + 1].op = "write"
                  /\ Moves'[i + 1].to = EhdrSize(isELF64(TargetArch))
      /\ Moves' = <<>> => tell(Str') = tell(Str)
      /\ Moves' # <<>> => tell(Str') = Moves'[Len(Moves')].to
      /\ (lastCall'.op = "writeNonUserSections" /\ result' = "ok") =>
            Cardinality({i \in 1..Len(Moves') : Moves'[i].op = "seek"}) = 1
      /\ lastCall'.op # "writeNonUserSections" => tell(Str') >= tell(Str)
      /\ phase' # "Aborted" =>
            \A i \in 2..Len(Sections') :
               Sections'[i].OffsetSets =
                  (IF phase' = "Done" \/ i \in AllUserSections' THEN 1 ELSE 0)
    ]_vars

C14_SeekAfterPayloads ==
  /\ phase = "Done" /\ lastCall.op = "writeNonUserSections"
  /\ AllRelSections # {} /\ RoDataSections # <<>>
  /\ Len(Moves) >= 6 /\ Moves[Len(Moves) - 1].op = "seek"

\* The names added to .strtab so far.
StrTabNames == Sections[StrTab].Strings

\* C15, as stated: by the time .strtab is frozen, the name of every symbol of
\* the symbol table, the null symbol included, has been added to .strtab.
C15_EveryNameAdded ==
  Sections[StrTab].Frozen =>
     \A i \in 1..Len(Symbols) : Contains(StrTabNames, Symbols[i].Name)

\* C15, amended: every symbol but the null symbol has its name in .strtab from
\* the call that created it, so before .strtab is frozen, and its st_name is
\* the place of that name in the table; the name of the null symbol, the empty
\* string, is never added, and its st_name is 0, the leading NUL of the table.
C15_EveryNameButNullAdded ==
  /\ Symbols[1].Name = <<>> /\ ~Contains(StrTabNames, <<>>)
  /\ \A i \in 2..Len(Symbols) :
        Symbols[i].Name # <<>> /\ Contains(StrTabNames, Symbols[i].Name)
  /\ Sections[StrTab].Frozen <=> SectionNumbersAssigned
  /\ phase = "Done" =>
        /\ Symbols[1].st_name = 0 /\ StringTableData(StrTabNames)[1] = 0
        /\ Sections[StrTab].sh_size = Len(StringTableData(StrTabNames))
        /\ \A i \in 2..Len(Symbols) :
              /\ Symbols[i].st_name > 0
              /\ Slice(StringTableData(StrTabNames), Symbols[i].st_name,
                       Len(Symbols[i].Name) + 1) = Symbols[i].Name \o <<0>>
              /\ StringTableData(StrTabNames)[Symbols[i].st_name] = 0

C15_NamesResolved ==
  /\ phase = "Done" /\ Len(Symbols) >= 4
  /\ \E i, j \in 2..Len(Symbols) :
        /\ Symbols[i].Section \in Range(TextSections)
        /\ Symbols[j].Section \in Range(RoDataSections)
        /\ Symbols[i].st_name < Symbols[j].st_name

C20_RelSectionsConsumed ==
  [][ (phase = "Building" /\ lastCall'.op = "writeNonUserSections") =>
        /\ result' = "ok" /\ phase' = "Done"
        /\ \A R \in Range(RelTextSections' \o RelDataSections'
                            \o RelRoDataSections') :
              /\ Sections'[R].Number # NoSectionNumber
              /\ R \in Range(AllSections') ]_vars

C20_RelTextConsumedBesidePool ==
  /\ phase = "Done" /\ result = "ok" /\ lastCall.op = "writeNonUserSections"
  /\ Len(RelTextSections) = 1 /\ RoDataSections # <<>>
  /\ Sections[RelTextSections[1]].Number # NoSectionNumber

\* The k-th header of the section-header table of the file lies behind the
\* ELF header, which the final rewrite at offset 0 covers.
HeaderSlotOffset(k) == FileShOff + (k - 1) * ShdrSize(FileIs64)

\* C18: no section's name index is ever set before .shstrtab is laid out.
\* When writeNonUserSections has returned, every section of AllSections but
\* the null section had its name index set after the layout, and the index
\* points at the section's name in the .shstrtab data; every section has
\* its number, every other section had its file offset set exactly once,
\* .strtab's and every relocation section's offset lies behind .symtab and
\* their size is the size of their data; and each header of the table in
\* the file is the header of these final values of name index, offset,
\* size, sh_link and sh_info.
C18_HeadersOfFinalFields ==
  /\ \A i \in 1..Len(Sections) : Sections[i].NameIndexSet # "early"
  /\ (phase = "Done" /\ lastCall.op = "writeNonUserSections") =>
       /\ Sections[ShStrTab].Frozen
       /\ \A k \in 1..Len(AllSections) :
            LET S == Sections[AllSections[k]] IN
            /\ S.Number = k - 1
            /\ AllSections[k] # NullSection =>
                 /\ S.NameIndexSet = "late"
                 /\ S.OffsetSets = 1
                 /\ Slice(StringTableData(Sections[ShStrTab].Strings),
                          S.sh_name, Len(S.Name) + 1) = S.Name \o <<0>>
            /\ AllSections[k] \in AllRelSections =>
                 /\ S.sh_link = Sections[SymTab].Number
                 /\ S.sh_info = Sections[S.RelatedSection].Number
                 /\ S.sh_size = Len(S.Fixups) * S.sh_entsize
                 /\ S.sh_offset >= Sections[StrTab].sh_offset + Sections[StrTab].sh_size
            /\ AllSections[k] = StrTab =>
                 /\ S.sh_size = Len(StringTableData(S.Strings))
                 /\ S.sh_offset >= Sections[SymTab].sh_offset + Sections[SymTab].sh_size
            /\ HeaderSlotOffset(k) >= EhdrSize(FileIs64) =>
                 Slice(Str.buf, HeaderSlotOffset(k), ShdrSize(FileIs64))
                   = SectionHeader(S, IF FileIs64 THEN 8 ELSE 4)

C18_RelHeaderAfterRelData ==
  /\ phase = "Done" /\ lastCall.op = "writeNonUserSections"
  /\ Len(RelTextSections) = 1
  /\ Sections[RelTextSections[1]].sh_size > 0
  /\ Sections[RelTextSections[1]].sh_offset > Sections[StrTab].sh_offset
  /\ Sections[RelTextSections[1]].NameIndexSet = "late"
  /\ HeaderSlotOffset(1) >= EhdrSize(FileIs64)

\* The 16-bit field of the header written at Base that ends Back bytes before
\* the header's end.
HalfField(buf, Base, Back) == LEValue(Slice(buf, Base + EhdrSize(FileIs64) - Back, 2))

\* C17: writeELFHeaderInternal fails exactly when the section count or the
\* index of the section-header string table is >= SHN_LORESERVE.  When it
\* fails, nothing but e_ident has been written: no e_shnum or e_shstrndx that
\* truncates the value to 16 bits is emitted.  When it does not fail, the
\* whole header is written and e_shnum and e_shstrndx are the values given.
C17_HeaderLimit ==
  [][ lastCall'.op = "writeELFHeaderInternal" =>
        /\ result' = "error" <=>
             (lastCall'.NumSections >= SHN_LORESERVE
                \/ lastCall'.SectHeaderStrIndex >= SHN_LORESERVE)
        /\ result' = "error" =>
             /\ tell(Str') = tell(Str) + EI_NIDENT
             /\ Len(Str'.buf) = tell(Str')
        /\ result' = "ok" =>
             /\ tell(Str') = tell(Str) + EhdrSize(FileIs64)
             /\ HalfField(Str'.buf, tell(Str), 4) = lastCall'.NumSections
             /\ HalfField(Str'.buf, tell(Str), 2) = lastCall'.SectHeaderStrIndex
        /\ SubSeq(Str'.buf, 1, tell(Str)) = Str.buf ]_vars

C17_TruncatingCountRefused ==
  /\ lastCall.op = "writeELFHeaderInternal" /\ result = "error"
  /\ lastCall.NumSections = 65540 /\ lastCall.SectHeaderStrIndex = 4
  /\ tell(Str) = MaxPos + EI_NIDENT

\* The powers of two among the alignments.
IsPowerOfTwo(a) == a \in {1, 2, 4, 8, 16, 32, 64}

\* C19: for Align a power of two and the sink at position p, alignFileOffset
\* returns the smallest multiple of Align that is >= p, writes exactly
\* (returned value - p) zero bytes behind what the sink held, fewer than
\* Align, and leaves the sink at the returned value; when p is a multiple of
\* Align it writes nothing.
C19_AlignFileOffset ==
  [][ (lastCall'.op = "alignFileOffset" /\ IsPowerOfTwo(lastCall'.Align)) =>
        LET p == tell(Str)
            Align == lastCall'.Align
            ret == lastCall'.OffsetInFile
        IN /\ result' = "ok"
           /\ ret >= p /\ ret % Align = 0
           /\ \A m \in p..(ret - 1) : m % Align # 0
           /\ ret - p < Align
           /\ Str'.buf = Str.buf \o Zeros(ret - p)
           /\ tell(Str') = ret
           /\ Str'.pad = Str.pad \cup ((p + 1)..ret)
           /\ Moves' = IF ret = p THEN <<>>
                       ELSE <<[op |-> "write", from |-> p, to |-> ret]>>
           /\ p % Align = 0 => (ret = p /\ Str'.buf = Str.buf) ]_vars

C19_FifteenZeros ==
  /\ lastCall.op = "alignFileOffset" /\ result = "ok"
  /\ lastCall.Align = 16 /\ lastCall.OffsetInFile = 32
  /\ Cardinality(Str.pad) = 15 /\ Len(Str.buf) = 32

\* The places (from 0) of e_shoff, e_shnum and e_shstrndx in the ELF header.
PatchedHeaderBytes ==
  (IF FileIs64 THEN 40..47 ELSE 32..35)
     \cup ((EhdrSize(FileIs64) - 4)..(EhdrSize(FileIs64) - 1))

\* C21: when writeInitialELFHeader ran once and before any payload, the
\* rewrite of the header at the end of writeNonUserSections consists of the
\* seek to 0 and a write of exactly the header's size (64 bytes for ELF64,
\* 52 for ELF32) over the header reserved; it changes no byte outside
\* e_shoff, e_shnum and e_shstrndx, and every byte at or beyond the header's
\* size (payloads, tables, section headers) is what it was before the seek.
C21_HeaderPatchedInPlace ==
  (phase = "Done" /\ lastCall.op = "writeNonUserSections" /\ HeaderFirst) =>
    /\ Len(Moves) >= 2
    /\ Moves[Len(Moves) - 1].op = "seek" /\ Moves[Len(Moves) - 1].to = 0
    /\ Moves[Len(Moves)] = [op |-> "write", from |-> 0, to |-> EhdrSize(FileIs64)]
    /\ EhdrSize(FileIs64) = (IF FileIs64 THEN 64 ELSE 52)
    /\ tell(Str) = EhdrSize(FileIs64)
    /\ Len(Str.buf) = Len(Str.atSeek)
    /\ SubSeq(Str.atSeek, 1, EhdrSize(FileIs64))
         = ELFHeader(TargetArch, FileIs64, 0, 0, 0).buf
    /\ \A i \in 1..Len(Str.buf) :
         Str.buf[i] # Str.atSeek[i] => (i - 1) \in PatchedHeaderBytes

C21_HeaderPatchedBeforePayload ==
  /\ phase = "Done" /\ lastCall.op = "writeNonUserSections" /\ HeaderFirst
  /\ TextSections # <<>> /\ RoDataSections # <<>>
  /\ Sections[TextSections[1]].sh_offset = EhdrSize(FileIs64)
  /\ \E i \in PatchedHeaderBytes : Str.buf[i + 1] # Str.atSeek[i + 1]

====
